---------------------------- MODULE Spec2Model ----------------------------
(***************************************************************************)
(* A model of the DSP kernels of idsp: the shift-gain PLL (src/pll.rs),    *)
(* the biquad IIR filter (src/iir.rs) and cossin (src/cossin.rs).          *)
(*                                                                         *)
(* i32 values are the integers I32Min..I32Max; every wrapping operation    *)
(* is computed without leaving that range.  The IIR's floating-point type  *)
(* T is modelled by exact rationals <<numerator, denominator>>.            *)
(***************************************************************************)
EXTENDS Integers, Sequences, FiniteSets, TLC

VARIABLES
    pll,     \* PLL { x, f, y }
    pcall,   \* the last PLL::update call: its arguments, the state before it, its locals
    pret,    \* the (phase, frequency) pair the last PLL::update returned
    calls,   \* number of calls made so far
    iir,     \* IIR { ba, y_offset, y_min, y_max }
    xy,      \* the caller's filter state, a Vec5 indexed 0..4
    icall,   \* the last IIR call: its arguments, the state before it, its locals
    iret,    \* what the last IIR call returned
    xs,      \* the inputs fed to IIR::update so far, oldest first
    ys,      \* the outputs IIR::update returned so far, oldest first
    cs       \* cossin: the table and build in use, the last call and the one before it

pvars == <<pll, pcall, pret>>
ivars == <<iir, xy, icall, iret, xs, ys>>
vars == <<pll, pcall, pret, calls, iir, xy, icall, iret, xs, ys, cs>>

----------------------------------------------------------------------------
(* 32-bit two's complement arithmetic *)

I32Max == 2147483647
I32Min == -I32Max - 1

\* i32::wrapping_add
wrapping_add(a, b) ==
    IF a >= 0 /\ b > I32Max - a THEN (a + I32Min) + (b + I32Min)
    ELSE IF a < 0 /\ b < I32Min - a THEN (a - I32Min) + (b - I32Min)
    ELSE a + b

\* i32::wrapping_sub
wrapping_sub(a, b) ==
    IF b = I32Min
    THEN (IF a < 0 THEN a - I32Min ELSE a + I32Min)
    ELSE wrapping_add(a, -b)

\* `a >> s` on i32: arithmetic shift, floor division by 2^s
shr(a, s) == a \div (2 ^ s)

\* `1i32 << s`, 0 <= s <= 30
shl1(s) == 2 ^ s

\* i32::abs, away from i32::MIN
Abs(v) == IF v < 0 THEN -v ELSE v

----------------------------------------------------------------------------
(* PLL (shift-gain variant) *)

\* PLL::default()
PLLDefault == [x |-> 0, f |-> 0, y |-> 0]

\* Option<i32>: None is the empty sequence, Some(v) the sequence holding v
None == <<>>
Some(v) == <<v>>

\* df without the feedback of the frequency accumulator
PLLdf_NoFeedback(s, x, shift_frequency) ==
    shr(wrapping_sub(wrapping_add(shl1(shift_frequency - 1), x), s.x), shift_frequency)

\* df with the bias 1 << shift_frequency, one bit too high
PLLdf_FullBias(s, x, shift_frequency) ==
    shr(wrapping_sub(wrapping_sub(wrapping_add(shl1(shift_frequency), x), s.x), s.f),
        shift_frequency)

\* df of PLL::update, sample present
PLLdf(s, x, shift_frequency) ==
    shr(wrapping_sub(wrapping_sub(wrapping_add(shl1(shift_frequency - 1), x), s.x), s.f),
        shift_frequency)

\* dy without the rounding bias: truncation
PLLdy_Truncated(y, x, shift_phase) ==
    shr(wrapping_sub(x, y), shift_phase)

\* dy of PLL::update, sample present; y is the phase accumulator already advanced by f
PLLdy(y, x, shift_phase) ==
    shr(wrapping_sub(wrapping_add(shl1(shift_phase - 1), x), y), shift_phase)

\* update returning the accumulators in place of the midpoint estimates
PLLUpdateSome_NoMidpoint(s, x, shift_frequency, shift_phase) ==
    LET df  == PLLdf(s, x, shift_frequency)
        sf  == wrapping_add(s.f, df)
        y1  == wrapping_add(s.y, sf)
        dy  == PLLdy(y1, x, shift_phase)
        sy  == wrapping_add(y1, dy)
    IN  [state |-> [x |-> x, f |-> sf, y |-> sy],
         ret   |-> <<sy, wrapping_add(sf, dy)>>,
         df    |-> df,
         y1    |-> y1,
         dy    |-> dy]

\* PLL::update, sample present: the new state, the returned pair and the locals
PLLUpdateSome(s, x, shift_frequency, shift_phase) ==
    LET df  == PLLdf(s, x, shift_frequency)
        sf  == wrapping_add(s.f, df)
        f   == wrapping_sub(sf, shr(df, 1))
        y1  == wrapping_add(s.y, f)
        dy  == PLLdy(y1, x, shift_phase)
        sy  == wrapping_add(y1, dy)
        y   == wrapping_sub(sy, shr(dy, 1))
    IN  [state |-> [x |-> x, f |-> sf, y |-> sy],
         ret   |-> <<y, wrapping_add(f, dy)>>,
         df    |-> df,
         y1    |-> y1,
         dy    |-> dy]

\* a missing sample that leaves the last input phase where it was
PLLUpdateNone_StaleInput(s) ==
    LET sy == wrapping_add(s.y, s.f)
    IN  [state |-> [x |-> s.x, f |-> s.f, y |-> sy],
         ret   |-> <<sy, s.f>>,
         df    |-> 0,
         y1    |-> sy,
         dy    |-> 0]

\* PLL::update, sample missing
PLLUpdateNone(s) ==
    LET sx == wrapping_add(s.x, s.f)
        sy == wrapping_add(s.y, s.f)
    IN  [state |-> [x |-> sx, f |-> s.f, y |-> sy],
         ret   |-> <<sy, s.f>>,
         df    |-> 0,
         y1    |-> sy,
         dy    |-> 0]

\* PLL::update
PLLUpdate(s, x, shift_frequency, shift_phase) ==
    IF x # None
    THEN PLLUpdateSome(s, x[1], shift_frequency, shift_phase)
    ELSE PLLUpdateNone(s)

\* PLL::phase
phase(s) == s.y

\* PLL::frequency
frequency(s) == s.f

----------------------------------------------------------------------------
(* The float type T of the IIR, as exact rationals <<n, d>> with d > 0 in     *)
(* lowest terms.  Rounding is not modelled: the values used are small dyadic  *)
(* rationals, on which the float operations are exact.                        *)

RECURSIVE GCD(_, _)
GCD(a, b) == IF b = 0 THEN a ELSE GCD(b, a % b)

RNorm(n, d) ==
    LET g == GCD(Abs(n), Abs(d))
    IN  IF d < 0 THEN <<(-n) \div g, (-d) \div g>> ELSE <<n \div g, d \div g>>

\* the rational n / 1
R(n) == <<n, 1>>

RNeg(a) == <<-a[1], a[2]>>

RAdd(a, b) ==
    LET g == GCD(a[2], b[2])
    IN  RNorm(a[1] * (b[2] \div g) + b[1] * (a[2] \div g), (a[2] \div g) * b[2])

RSub(a, b) == RAdd(a, RNeg(b))

RMul(a, b) ==
    LET g1 == GCD(Abs(a[1]), b[2])
        g2 == GCD(Abs(b[1]), a[2])
    IN  RNorm((a[1] \div g1) * (b[1] \div g2), (a[2] \div g2) * (b[2] \div g1))

\* a / b, b nonzero
RDiv(a, b) == RMul(a, RNorm(b[2], b[1]))

\* a < b: by the integer parts, then by the fractional parts
RLt(a, b) ==
    LET fa == a[1] \div a[2]
        fb == b[1] \div b[2]
        g  == GCD(a[2], b[2])
    IN  IF fa # fb THEN fa < fb
        ELSE (a[1] % a[2]) * (b[2] \div g) < (b[1] % b[2]) * (a[2] \div g)

RLe(a, b) == ~RLt(b, a)

\* T::default()
Zero == R(0)

\* T::epsilon() of f32, 2^-23
Epsilon == <<1, 2 ^ 23>>

\* a Vec5 from a 5-tuple: the index runs 0..4 as in the source
Vec5(t) == [i \in 0..4 |-> t[i + 1]]

\* abs of lib.rs
abs(x) == IF RLt(x, Zero) THEN RNeg(x) ELSE x

\* copysign of lib.rs: the magnitude of x with the sign of y
copysign(x, y) == IF RLt(y, Zero) THEN RNeg(abs(x)) ELSE abs(x)

\* macc of lib.rs: y0 + sum of x[i] * a[i], accumulated left to right
macc(y0, x, a) ==
    LET RECURSIVE acc(_)
        acc(i) == IF i < 0 THEN y0 ELSE RAdd(acc(i - 1), RMul(x[i], a[i]))
    IN  acc(4)

\* num_traits::clamp
clamp(input, min, max) ==
    IF RLt(input, min) THEN min
    ELSE IF RLt(max, input) THEN max
    ELSE input

----------------------------------------------------------------------------
(* Biquad IIR *)

\* IIR::new
IIRNew(gain, y_min, y_max) ==
    [ba |-> Vec5(<<gain, Zero, Zero, Zero, Zero>>),
     y_offset |-> Zero, y_min |-> y_min, y_max |-> y_max]

\* IIR::set_pi: the result, the coefficients afterwards, and b0 + b1 as synthesized
IIRSetPi(self, kp, ki_in, g_in) ==
    LET one == R(1)
        two == R(2)
        ki  == copysign(ki_in, kp)
        g   == copysign(g_in, kp)
        c   == IF RLt(abs(g), Epsilon) THEN one ELSE RDiv(one, RAdd(one, RDiv(ki, g)))
        pi  == IF RLt(abs(ki), Epsilon)
               THEN [a1 |-> Zero, b0 |-> kp, b1 |-> Zero, checked |-> FALSE]
               ELSE [a1 |-> RSub(RMul(two, c), one),
                     b0 |-> RAdd(RMul(ki, c), kp),
                     b1 |-> RSub(RMul(ki, c), RMul(RSub(RMul(two, c), one), kp)),
                     checked |-> TRUE]
        sum == RAdd(pi.b0, pi.b1)
    IN  IF pi.checked /\ RLt(abs(sum), Epsilon)
        THEN [result |-> "Err", ba |-> self.ba, sum |-> sum]
        ELSE [result |-> "Ok",
              ba |-> Vec5(<<pi.b0, pi.b1, Zero, pi.a1, Zero>>),
              sum |-> sum]

\* a shift one slot short, xy.copy_within(0..n - 2, 1): y2 is never replaced
IIRShift_Short(s, x0) ==
    [i \in 0..4 |-> IF i = 0 THEN x0 ELSE IF i = 4 THEN s[4] ELSE s[i - 1]]

\* the shift of IIR::update: xy.copy_within(0..n - 1, 1); xy[0] = x0
IIRShift(s, x0) == [i \in 0..4 |-> IF i = 0 THEN x0 ELSE s[i - 1]]

\* a hold that replays slot n / 2 of the shifted state, an input
IIRy0_HoldInput(self, s, hold) ==
    IF hold THEN s[5 \div 2] ELSE macc(self.y_offset, s, self.ba)

\* y0 of IIR::update before the limiter, computed on the shifted state
IIRy0(self, s, hold) ==
    IF hold THEN s[(5 \div 2) + 1] ELSE macc(self.y_offset, s, self.ba)

\* update storing y0 as computed, limiting only what it returns
IIRUpdate_StoreUnlimited(self, s, x0, hold) ==
    LET shifted == IIRShift(s, x0)
        y0 == IIRy0(self, shifted, hold)
    IN  [xy |-> [shifted EXCEPT ![5 \div 2] = y0],
         ret |-> clamp(y0, self.y_min, self.y_max)]

\* IIR::update: the state afterwards and the returned y0
IIRUpdate(self, s, x0, hold) ==
    LET shifted == IIRShift(s, x0)
        y0 == clamp(IIRy0(self, shifted, hold), self.y_min, self.y_max)
    IN  [xy |-> [shifted EXCEPT ![5 \div 2] = y0], ret |-> y0]

----------------------------------------------------------------------------
(* cossin *)

\* COSSIN_DEPTH of the generated cossin_table.rs: a 7-bit deep LUT
COSSIN_DEPTH == 7

\* ALIGN_MSB of cossin
ALIGN_MSB == 32 - 16 - 1

\* PI4 of cossin: (FRAC_PI_4 * (1 << 16) as f64) as i32
PI4 == 51471

\* COSSIN[i] of the generated cossin_table.rs, a u32 as <<low half, high half>>:
\* the coded cosine in the low 16 bits, the sine in the high 16 bits.  The
\* contents are arbitrary: "ramp" falls and rises with the index as the real
\* table does, "zero" and "ones" are the extreme words, "edge" drives the
\* interpolated cosine to 2^31.
COSSIN(table, i) ==
    CASE table = "ramp" -> <<65534 - 300 * i, 200 + 360 * i>>
      [] table = "zero" -> <<0, 0>>
      [] table = "ones" -> <<65535, 65535>>
      [] table = "edge" -> <<65535, 4096>>

\* bit k of the 32-bit pattern of v
Bit(v, k) == IF k = 31 THEN (IF v < 0 THEN 1 ELSE 0) ELSE (v \div (2 ^ k)) % 2

\* `!phase` on i32
not32(v) == -v - 1

\* `-v` on i32 where overflow wraps
wrapping_neg(v) == IF v = I32Min THEN I32Min ELSE -v

\* a + b, a - b leave the i32 range
AddOverflows(a, b) == (b > 0 /\ a > I32Max - b) \/ (b < 0 /\ a < I32Min - b)
SubOverflows(a, b) == (b < 0 /\ a > I32Max + b) \/ (b > 0 /\ a < I32Min + b)

\* (((phase as u32) << 3) >> (32 - COSSIN_DEPTH - ALIGN_MSB)) as i32: the low 29
\* bits of the phase p, less their lowest 32 - 3 - COSSIN_DEPTH - ALIGN_MSB
CosSinMask(p) == (p % (2 ^ 29)) \div (2 ^ (32 - 3 - COSSIN_DEPTH - ALIGN_MSB))

\* the octant bits as used to unmap, without the Gray coding
CosSinOctant_Plain(p) ==
    [swap |-> Bit(p, 29) = 1, negcos |-> Bit(p, 30) = 1, negsin |-> Bit(p, 31) = 1]

\* octant ^= octant >> 1, read at bits 29, 30 and 31
CosSinOctant(p) ==
    [swap   |-> Bit(p, 29) # Bit(p, 30),
     negcos |-> Bit(p, 30) # Bit(p, 31),
     negsin |-> Bit(p, 31) = 1]

\* cossin up to the unmapping: the interpolated first-octant cos and sin, and
\* whether an addition or subtraction left the i32 range on the way
CosSinFolded(table, phase_in) ==
    LET folded == IF Bit(phase_in, 29) # 0 THEN not32(phase_in) ELSE phase_in
        masked == CosSinMask(folded)
        lookup == COSSIN(table, shr(masked, ALIGN_MSB))
        \* phase &= (1 << ALIGN_MSB) - 1; phase -= 1 << (ALIGN_MSB - 1)
        offset == (masked % (2 ^ ALIGN_MSB)) - 2 ^ (ALIGN_MSB - 1)
        dphi   == shr(offset * PI4, 16)
        cos0   == lookup[1] + 2 ^ 16
        sin0   == lookup[2]
        dcos   == shr(sin0 * dphi, COSSIN_DEPTH)
        dsin   == shr(cos0 * dphi, COSSIN_DEPTH + 1)
        cosw   == cos0 * 2 ^ (ALIGN_MSB - 1)
        sinw   == sin0 * 2 ^ ALIGN_MSB
    IN  [cos |-> wrapping_sub(cosw, dcos),
         sin |-> wrapping_add(sinw, dsin),
         overflow |-> SubOverflows(cosw, dcos) \/ AddOverflows(sinw, dsin)]

\* cossin: the returned (cos, sin).  Arithmetic that leaves the i32 range
\* panics in a debug build and wraps in a release build.
cossin(table, debug, p) ==
    LET fold == CosSinFolded(table, p)
        oct  == CosSinOctant(p)
        cos1 == IF oct.swap THEN fold.sin ELSE fold.cos
        sin1 == IF oct.swap THEN fold.cos ELSE fold.sin
        overflow == \/ fold.overflow
                    \/ (oct.negcos /\ cos1 = I32Min)
                    \/ (oct.negsin /\ sin1 = I32Min)
    IN  IF debug /\ overflow
        THEN [panic |-> TRUE, cos |-> 0, sin |-> 0]
        ELSE [panic |-> FALSE,
              cos |-> IF oct.negcos THEN wrapping_neg(cos1) ELSE cos1,
              sin |-> IF oct.negsin THEN wrapping_neg(sin1) ELSE sin1]

----------------------------------------------------------------------------
(* Bounds and input sets *)

\* update calls per run
MaxCalls == 1

\* representative i32 values: zero, units, the extremes
I32Values == {0, 1, -1, I32Max, I32Min}

\* phase samples fed to update
Samples == I32Values \cup {65536}

\* shift_frequency and shift_phase, both within 1..=30
ShiftsFrequency == {1, 8, 30}
ShiftsPhase == {1, 4, 30}

NoCall == [op |-> "init"]

\* IIR calls per run from a caller-supplied state
MaxIIRCalls == 2

\* IIR::update calls per run from the zero state
MaxSeqCalls == 4

\* coefficient vectors: a gain, all five taps, an integrator
Coefficients ==
    {Vec5(<<R(1), R(0), R(0), R(0), R(0)>>),
     Vec5(<<R(1), R(2), R(-1), R(1), R(-1)>>),
     Vec5(<<R(2), R(-1), R(0), R(1), R(0)>>)}

\* output limits, y_min <= y_max
Limits == {<<R(-2), R(2)>>, <<R(-100), R(100)>>, <<R(1), R(1)>>}

\* IIR configurations
Configs ==
    {[ba |-> ba, y_offset |-> yo, y_min |-> l[1], y_max |-> l[2]] :
        ba \in Coefficients, yo \in {R(0), R(1)}, l \in Limits}

\* caller-supplied filter states
States ==
    {Vec5(<<x0, x1, y0, y1, R(0)>>) :
        x0 \in {R(0), R(3)}, x1 \in {R(0)}, y0 \in {R(-3), R(0), R(3)}, y1 \in {R(0), R(-3)}}

\* inputs of IIR::update
Inputs == {R(-3), R(1), R(3)}

\* arguments of IIR::set_pi
Kps == {R(0), R(-1), <<1, 2 ^ 24>>}
Kis == {R(0), R(1)}
Gs == {R(0), R(3)}

\* cossin calls per run
MaxCosSinCalls == 2

\* lookup tables and builds
Tables == {"ramp", "zero", "ones", "edge"}

\* the low 29 bits of the phases: the ends of an octant, points inside table
\* intervals, and the two offsets at which the "edge" table reaches 2^31
Residues ==
    {0, 1, 2 ^ 29 - 1,
     5 * 2 ^ 22 + 100 * 128,
     64 * 2 ^ 22 + 16384 * 128 + 77,
     127 * 2 ^ 22 + 32000 * 128 + 5,
     15733 * 128,
     2 ^ 29 - 1 - 15733 * 128}

\* the phase of octant k with low bits r
PhaseOf(k, r) == IF k < 4 THEN k * 2 ^ 29 + r ELSE I32Min + (k - 4) * 2 ^ 29 + r

\* phases fed to cossin: every octant
Phases == {PhaseOf(k, r) : k \in 0..7, r \in Residues}

ZeroState == Vec5(<<Zero, Zero, Zero, Zero, Zero>>)

----------------------------------------------------------------------------
(* The PLL driven with arbitrary calls from an arbitrary state *)

\* the IIR at rest, for the runs of the PLL
IIRIdle ==
    /\ iir = IIRNew(R(1), R(-100), R(100))
    /\ xy = ZeroState
    /\ icall = NoCall
    /\ iret = Zero
    /\ xs = <<>>
    /\ ys = <<>>

\* cossin not yet called, for the runs of the PLL and of the IIR
CosSinIdle == cs = [table |-> "ramp", debug |-> FALSE, last |-> NoCall, before |-> NoCall]

\* the PLL at rest, for the runs of the IIR
PLLIdle ==
    /\ pll = PLLDefault
    /\ pcall = NoCall
    /\ pret = <<0, 0>>

InitPLL ==
    /\ pll \in [x : I32Values, f : I32Values, y : I32Values]
    /\ pcall = NoCall
    /\ pret = <<0, 0>>
    /\ calls = 0
    /\ IIRIdle
    /\ CosSinIdle

Update(x, shift_frequency, shift_phase) ==
    LET r == PLLUpdate(pll, x, shift_frequency, shift_phase)
    IN  /\ pll' = r.state
        /\ pret' = r.ret
        /\ pcall' = [op |-> "update", x |-> x, shift_frequency |-> shift_frequency,
                     shift_phase |-> shift_phase, pre |-> pll,
                     df |-> r.df, y1 |-> r.y1, dy |-> r.dy]
        /\ calls' = calls + 1
        /\ UNCHANGED <<ivars, cs>>

UpdateSample ==
    /\ calls < MaxCalls
    /\ \E x \in Samples, sf \in ShiftsFrequency, sp \in ShiftsPhase : Update(Some(x), sf, sp)

UpdateMissing ==
    /\ calls < MaxCalls
    /\ \E sf \in ShiftsFrequency, sp \in ShiftsPhase : Update(None, sf, sp)

NextPLL == UpdateSample \/ UpdateMissing

SpecPLL == InitPLL /\ [][NextPLL]_vars

----------------------------------------------------------------------------
(* The PLL of tests::converge: a constant-frequency input from the zero state *)

\* f0 of tests::converge
F0 == 1911959625

\* shift of tests::converge
ConvergeShiftFrequency == 10
ConvergeShiftPhase == 9

\* n of tests::converge: 31 << shift.0 + 2
ConvergeN == 31 * 2 ^ (ConvergeShiftFrequency + 2)

InitConverge ==
    /\ PLLIdle
    /\ calls = 0
    /\ IIRIdle
    /\ CosSinIdle

\* one iteration of the loop of tests::converge; the loop index is calls
ConvergeStep ==
    /\ calls < ConvergeN
    /\ Update(Some(wrapping_add(pll.x, F0)), ConvergeShiftFrequency, ConvergeShiftPhase)

NextConverge == ConvergeStep

SpecConverge == InitConverge /\ [][NextConverge]_vars

----------------------------------------------------------------------------
(* The IIR driven with arbitrary calls from a caller-supplied state *)

InitIIR ==
    /\ iir \in Configs
    /\ xy \in States
    /\ icall = NoCall
    /\ iret = Zero
    /\ xs = <<>>
    /\ ys = <<>>
    /\ calls = 0
    /\ PLLIdle
    /\ CosSinIdle

\* a call of IIR::update on the caller's state
Filter(x0, hold) ==
    LET r == IIRUpdate(iir, xy, x0, hold)
    IN  /\ xy' = r.xy
        /\ iret' = r.ret
        /\ icall' = [op |-> "update", x0 |-> x0, hold |-> hold, pre |-> xy]
        /\ xs' = Append(xs, x0)
        /\ ys' = Append(ys, r.ret)
        /\ calls' = calls + 1
        /\ UNCHANGED <<iir, pvars, cs>>

FilterSample ==
    /\ calls < MaxIIRCalls
    /\ \E x0 \in Inputs : Filter(x0, FALSE)

FilterHold ==
    /\ calls < MaxIIRCalls
    /\ \E x0 \in Inputs : Filter(x0, TRUE)

\* a call of IIR::set_pi
SetPi ==
    /\ calls < MaxIIRCalls
    /\ \E kp \in Kps, ki \in Kis, g \in Gs :
        LET r == IIRSetPi(iir, kp, ki, g)
        IN  /\ iir' = [iir EXCEPT !.ba = r.ba]
            /\ iret' = r.result
            /\ icall' = [op |-> "set_pi", kp |-> kp, ki |-> ki, g |-> g,
                         pre |-> iir.ba, sum |-> r.sum]
            /\ calls' = calls + 1
            /\ UNCHANGED <<xy, xs, ys, pvars, cs>>

NextIIR == FilterSample \/ FilterHold \/ SetPi

SpecIIR == InitIIR /\ [][NextIIR]_vars

----------------------------------------------------------------------------
(* The IIR run on a sequence of inputs from the zero state, one configuration *)

InitSeq ==
    /\ iir \in Configs
    /\ xy = ZeroState
    /\ icall = NoCall
    /\ iret = Zero
    /\ xs = <<>>
    /\ ys = <<>>
    /\ calls = 0
    /\ PLLIdle
    /\ CosSinIdle

SeqSample ==
    /\ calls < MaxSeqCalls
    /\ \E x0 \in Inputs : Filter(x0, FALSE)

NextSeq == SeqSample

SpecSeq == InitSeq /\ [][NextSeq]_vars

----------------------------------------------------------------------------
(* cossin called on arbitrary phases and on phases a quarter period on *)

InitCosSin ==
    /\ cs \in [table : Tables, debug : BOOLEAN, last : {NoCall}, before : {NoCall}]
    /\ calls = 0
    /\ PLLIdle
    /\ IIRIdle

\* a call of cossin
Evaluate(p) ==
    /\ cs' = [cs EXCEPT !.last = [op |-> "cossin", phase |-> p,
                                    ret |-> cossin(cs.table, cs.debug, p)],
                          !.before = cs.last]
    /\ calls' = calls + 1
    /\ UNCHANGED <<pvars, ivars>>

CosSinAny ==
    /\ calls < MaxCosSinCalls
    /\ \E p \in Phases : Evaluate(p)

\* a call a quarter period after the last one
CosSinQuarter ==
    /\ calls < MaxCosSinCalls
    /\ cs.last # NoCall
    /\ Evaluate(wrapping_add(cs.last.phase, 2 ^ 30))

NextCosSin == CosSinAny \/ CosSinQuarter

SpecCosSin == InitCosSin /\ [][NextCosSin]_vars

----------------------------------------------------------------------------
(* Arithmetic used to state the properties, independent of the operators above *)

\* the low and high 16-bit halves of the 32-bit pattern of v
Lo16(v) == v % 65536
Hi16(v) == (v \div 65536) % 65536

\* a = b + c modulo 2^32, by schoolbook addition of the halves
IsWrapSum(a, b, c) ==
    LET lo == Lo16(b) + Lo16(c)
        hi == Hi16(b) + Hi16(c) + (lo \div 65536)
    IN  Lo16(a) = lo % 65536 /\ Hi16(a) = hi % 65536

\* e / 2^s rounded to the nearest integer, ties towards +infinity
RoundHalfUp(e, s) ==
    LET q == e \div (2 ^ s)
        r == e % (2 ^ s)
    IN  IF r >= 2 ^ (s - 1) THEN q + 1 ELSE q

\* e / 2^s rounded to the nearest integer, ties away from zero
RoundHalfAway(e, s) ==
    LET q == e \div (2 ^ s)
        r == e % (2 ^ s)
    IN  IF e >= 0
        THEN (IF r >= 2 ^ (s - 1) THEN q + 1 ELSE q)
        ELSE (IF r > 2 ^ (s - 1) THEN q + 1 ELSE q)

\* floor((e + 2^(s-1)) / 2^s) with the biased sum wrapped to 32 bits: round half
\* up while e + 2^(s-1) fits in an i32, 2^(32-s) less once it wraps
RoundHalfUpWrapped(e, s) ==
    IF e <= I32Max - 2 ^ (s - 1)
    THEN RoundHalfUp(e, s)
    ELSE (RoundHalfUp(e, s) - 2 ^ (31 - s)) - 2 ^ (31 - s)

\* the last call was update with a sample / without one
SampleCall == pcall.op = "update" /\ pcall.x # None
MissingCall == pcall.op = "update" /\ pcall.x = None

\* the wrapped frequency error x - x_prev - f of the last call
FrequencyError == wrapping_sub(wrapping_sub(pcall.x[1], pcall.pre.x), pcall.pre.f)

\* the wrapped phase error x - y of the last call, y the advanced phase accumulator
PhaseError == wrapping_sub(pcall.x[1], pcall.y1)

----------------------------------------------------------------------------
(* Properties of the biquad IIR *)

RMin(a, b) == IF RLt(b, a) THEN b ELSE a
RMax(a, b) == IF RLt(a, b) THEN b ELSE a

\* v limited to [lo, hi], lo <= hi
Limited(v, lo, hi) == RMax(lo, RMin(v, hi))

\* the last call was IIR::update, with hold / without
FilterCall == icall.op = "update"
HoldCall == FilterCall /\ icall.hold
SampleFilterCall == FilterCall /\ ~icall.hold

\* the state of the last update call was shifted: the input enters slot 0, the
\* old slots 0, 2 and 3 move to 1, 3 and 4
StateShifted ==
    /\ xy[0] = icall.x0
    /\ xy[1] = icall.pre[0]
    /\ xy[3] = icall.pre[2]
    /\ xy[4] = icall.pre[3]

\* y_offset + sum(ba[i] * xy[i]) of the last update call, on the shifted state
\* x0, x1, x2, y1, y2 = the input and the old slots 0, 1, 2, 3
Combination ==
    RAdd(RAdd(RAdd(RMul(iir.ba[0], icall.x0), RMul(iir.ba[1], icall.pre[0])),
              RAdd(RMul(iir.ba[2], icall.pre[1]), RMul(iir.ba[3], icall.pre[2]))),
         RAdd(RMul(iir.ba[4], icall.pre[3]), iir.y_offset))

\* C4 (as claimed): update with hold returns exactly the previous output, the old
\* slot xy[2], and shifts the state as without hold.
C4_HoldReturnsPrevious ==
    HoldCall => (iret = icall.pre[2] /\ StateShifted)

\* C4 (amended): update with hold returns the previous output, the old slot xy[2],
\* limited to [y_min, y_max] (so unchanged when it lies within the limits), whatever
\* x0 is, stores it in xy[2], and shifts the state as without hold.
C4_HoldReturnsLimitedPrevious ==
    HoldCall =>
        /\ iret = Limited(icall.pre[2], iir.y_min, iir.y_max)
        /\ xy[2] = iret
        /\ StateShifted

\* a hold on a state whose output slot lies above y_max
C4_Witness ==
    /\ HoldCall
    /\ RLt(iir.y_max, icall.pre[2])
    /\ iret = iir.y_max /\ iret # icall.pre[2]
    /\ StateShifted

\* the returned y0 is the stored slot xy[2] and lies within the limits
OutputLimited ==
    /\ iret = xy[2]
    /\ RLe(iir.y_min, iret)
    /\ RLe(iret, iir.y_max)

\* C5 (as claimed): after every update call, hold or not, the returned y0 equals
\* xy[2] and lies in [y_min, y_max], and equals y_max (y_min) whenever the
\* combination y_offset + sum(ba[i] * xy[i]) is above y_max (below y_min).
C5_ClampAnyCall ==
    FilterCall =>
        /\ OutputLimited
        /\ RLt(iir.y_max, Combination) => iret = iir.y_max
        /\ RLt(Combination, iir.y_min) => iret = iir.y_min

\* C5 (amended): after every update call, hold or not, the returned y0 equals xy[2]
\* and lies in [y_min, y_max]; on a call without hold it equals y_max (y_min)
\* whenever the combination is above y_max (below y_min).
C5_Clamp ==
    FilterCall =>
        /\ OutputLimited
        /\ (~icall.hold /\ RLt(iir.y_max, Combination)) => iret = iir.y_max
        /\ (~icall.hold /\ RLt(Combination, iir.y_min)) => iret = iir.y_min

\* the second call of a run, without hold, with the combination above y_max
C5_Witness ==
    /\ SampleFilterCall /\ calls = 2
    /\ iir.y_min # iir.y_max
    /\ RLt(iir.y_max, Combination)
    /\ iret = iir.y_max /\ xy[2] = iir.y_max

\* C6 (as claimed): set_pi returns an error and leaves ba untouched whenever the
\* synthesized b0 + b1 has magnitude below machine epsilon.
C6_SetPiSignalsError ==
    (icall.op = "set_pi" /\ RLt(abs(icall.sum), Epsilon))
    => (iret = "Err" /\ iir.ba = icall.pre)

\* the inputs and outputs of the run, zero before its start
X(k) == IF k >= 1 THEN xs[k] ELSE Zero
Y(k) == IF k >= 1 THEN ys[k] ELSE Zero

\* the reference filter on separate input and output histories
Reference(k) ==
    Limited(
        RAdd(iir.y_offset,
             RAdd(RAdd(RMul(iir.ba[0], X(k)),
                       RAdd(RMul(iir.ba[1], X(k - 1)), RMul(iir.ba[2], X(k - 2)))),
                  RAdd(RMul(iir.ba[3], Y(k - 1)), RMul(iir.ba[4], Y(k - 2))))),
        iir.y_min, iir.y_max)

\* C9: from the zero state and under one configuration, every value update returns
\* without hold is the limited difference equation of the inputs so far and of the
\* values returned before.
C9_DifferenceEquation ==
    /\ Len(ys) = Len(xs)
    /\ \A k \in 1..Len(ys) : ys[k] = Reference(k)
    /\ FilterCall => iret = ys[Len(ys)]

\* the fourth output of a run with all five taps at work, within the limits
C9_Witness ==
    /\ Len(ys) = 4 /\ FilterCall
    /\ \A i \in 0..4 : iir.ba[i] # Zero
    /\ X(2) # Zero /\ Y(2) # Zero /\ Y(3) # Zero
    /\ RLt(iir.y_min, ys[4]) /\ RLt(ys[4], iir.y_max)
    /\ iret = Reference(4)

----------------------------------------------------------------------------
(* Properties of the PLL *)

\* C1: from the zero state, update(Some(0x10000), 8, 4) returns phase 0x87c and
\* frequency 0x1078.
C1_StepResponse ==
    (SampleCall /\ pcall.pre = PLLDefault /\ pcall.x = Some(65536)
        /\ pcall.shift_frequency = 8 /\ pcall.shift_phase = 4)
    => pret = <<2172, 4216>>

C1_Witness ==
    /\ SampleCall /\ pcall.pre = PLLDefault /\ pcall.x = Some(65536)
    /\ pcall.shift_frequency = 8 /\ pcall.shift_phase = 4
    /\ pret = <<2172, 4216>>

\* C2: in the run of tests::converge every call with index i > n/4 returns a
\* frequency within 2^10 of f0, and every call with index i > n/2 returns a phase
\* less than 2^18 away from the input phase x (wrapped differences).  The index
\* of the last call is calls - 1.
C2_Converge ==
    /\ (SampleCall /\ calls - 1 > ConvergeN \div 4)
        => Abs(wrapping_sub(pret[2], F0)) <= 2 ^ 10
    /\ (SampleCall /\ calls - 1 > ConvergeN \div 2)
        => Abs(wrapping_sub(pret[1], pcall.x[1])) < 2 ^ 18

C2_Witness ==
    /\ SampleCall /\ calls = ConvergeN
    /\ Abs(wrapping_sub(pret[2], F0)) <= 2 ^ 10
    /\ Abs(wrapping_sub(pret[1], pcall.x[1])) < 2 ^ 18

\* C3 (as claimed): after any update call phase() and frequency() return the pair
\* that the call returned.
C3_AccessorsReturnLastEstimate ==
    pcall.op = "update" => <<phase(pll), frequency(pll)>> = pret

\* C7: update(None, ..) leaves f unchanged, advances x and y by f (wrapping) and
\* returns (y + f, f), whatever the shifts.
C7_MissingSample ==
    MissingCall =>
        /\ pll.f = pcall.pre.f
        /\ IsWrapSum(pll.x, pcall.pre.x, pcall.pre.f)
        /\ IsWrapSum(pll.y, pcall.pre.y, pcall.pre.f)
        /\ IsWrapSum(pret[1], pcall.pre.y, pcall.pre.f)
        /\ pret[2] = pcall.pre.f

\* a missing sample whose advance by f wraps around
C7_Witness ==
    /\ MissingCall
    /\ pcall.pre.f = 1 /\ pcall.pre.y = I32Max /\ pcall.pre.x = -1
    /\ pll.y = I32Min /\ pll.x = 0 /\ pret = <<I32Min, 1>>

\* C8 (as claimed): df is e / 2^shift_frequency and dy is (x - y) / 2^shift_phase,
\* both rounded to the nearest integer with ties away from zero.
C8_RoundHalfAway ==
    SampleCall =>
        /\ pcall.df = RoundHalfAway(FrequencyError, pcall.shift_frequency)
        /\ pcall.dy = RoundHalfAway(PhaseError, pcall.shift_phase)

\* C8 (amended): df is e / 2^shift_frequency and dy is (x - y) / 2^shift_phase, both
\* rounded to the nearest integer with ties towards +infinity (round half up), as
\* long as the error plus the bias 2^(shift-1) fits in an i32; when it does not, the
\* biased sum wraps and the correction is that rounded value less 2^(32-shift).
C8_RoundHalfUp ==
    SampleCall =>
        /\ pcall.df = RoundHalfUpWrapped(FrequencyError, pcall.shift_frequency)
        /\ pcall.dy = RoundHalfUpWrapped(PhaseError, pcall.shift_phase)

\* a negative tie: e = -1 with shift 1 is -1/2, rounded up to 0
C8_Witness ==
    /\ SampleCall
    /\ pcall.shift_frequency = 1 /\ FrequencyError = -1 /\ pcall.df = 0
    /\ pcall.df = RoundHalfUp(FrequencyError, 1)
    /\ pcall.df # RoundHalfAway(FrequencyError, 1)

\* the state before the last call was locked to the input of the last call
LockedCall ==
    /\ SampleCall
    /\ pcall.pre.x = pcall.pre.y
    /\ IsWrapSum(pcall.x[1], pcall.pre.x, pcall.pre.f)

\* C10: from a locked state (x = y = X, f = f0), update(Some(X + f0)) computes
\* df = 0 and dy = 0, returns (X + f0, f0) and leaves the state locked.
C10_LockFixedPoint ==
    LockedCall =>
        /\ pcall.df = 0 /\ pcall.dy = 0
        /\ pret = <<pcall.x[1], pcall.pre.f>>
        /\ pll = [x |-> pcall.x[1], f |-> pcall.pre.f, y |-> pcall.x[1]]

\* a locked call whose phase wraps from i32::MAX to i32::MIN
C10_Witness ==
    /\ LockedCall
    /\ pcall.pre.x = I32Max /\ pcall.pre.f = 1 /\ pcall.x = Some(I32Min)
    /\ pll = [x |-> I32Min, f |-> 1, y |-> I32Min]

----------------------------------------------------------------------------
(* Properties of cossin *)

\* the last two calls returned, the later a quarter period after the earlier
QuarterPair ==
    /\ cs.last # NoCall /\ cs.before # NoCall
    /\ IsWrapSum(cs.last.phase, cs.before.phase, 2 ^ 30)
    /\ ~cs.before.ret.panic

\* -v as an i32
Negated(v) == IF v = I32Min THEN I32Min ELSE 0 - v

\* C11: whatever the table holds, if cossin(p) = (c, s) then
\* cossin(p + 2^30 wrapping) = (-s, c) exactly.
C11_QuarterPeriod ==
    QuarterPair =>
        /\ ~cs.last.ret.panic
        /\ cs.last.ret.cos = Negated(cs.before.ret.sin)
        /\ cs.last.ret.sin = cs.before.ret.cos

\* a quarter step out of an odd octant of the last quadrant, wrapping to
\* i32::MIN + ..., with the interpolation at work
C11_Witness ==
    /\ QuarterPair
    /\ cs.table = "ramp"
    /\ cs.before.phase = PhaseOf(3, 5 * 2 ^ 22 + 100 * 128)
    /\ cs.last.phase < 0
    /\ cs.before.ret.cos # 0 /\ cs.before.ret.sin # 0
    /\ cs.before.ret.cos # cs.before.ret.sin
    /\ cs.last.ret.cos = -cs.before.ret.sin
    /\ cs.last.ret.sin = cs.before.ret.cos

=============================================================================
